---- MODULE Spec2Model ----
(***************************************************************************)
(* LastMile.cy: the request store, the clustering run, the route view.     *)
(*                                                                         *)
(* Two React components are modelled, each under its own specification    *)
(* and, side by side, under Spec:                                          *)
(*   SpecDemo  LastMileDemo  (src/docs/PRESENTATION.md, lines 177-995):    *)
(*             request generator, optimization effect with its 1500 ms     *)
(*             timer, simulateRLOptimization, the polled route feed.       *)
(*   SpecAI    LastMileAI    (src/unnamed/part_001, lines 607-1437):       *)
(*             map selection, passenger +/- buttons, submitRequest with    *)
(*             its distance clustering, clearAll.                          *)
(* SpecCluster applies simulateRLOptimization to bounded request lists.    *)
(*                                                                         *)
(* A state update and the effects React runs for the render it causes are  *)
(* one step.  A setTimeout callback keeps the values of the render that    *)
(* scheduled it (its closure), so a pending timer carries that render's    *)
(* rideRequests.  User clicks and feed responses interleave freely with    *)
(* the timers; the generator's 3000 ms tick comes after the 1500 ms timers *)
(* that were set at or after the interval's last restart.                  *)
(* Display-only state (showSuccess, activeTab, focusedDestinationId, the   *)
(* CO2 totals, the random route id and estimatedSavings) is left out.      *)
(***************************************************************************)
EXTENDS Integers, Sequences, FiniteSets, TLC

VARIABLES
    rideRequests,        \* LastMileDemo: useState([]) request store
    optimizedRoutes,     \* LastMileDemo: clusters of the last completed run
    totalRequests,       \* LastMileDemo: stats.totalRequests
    selectedOrigin,      \* LastMileDemo: selected pickup city or Null
    selectedDestination, \* LastMileDemo: selected destination or Null
    isOptimizing,        \* LastMileDemo: the "AI Optimizing..." flag
    optTimers,           \* LastMileDemo: pending 1500 ms timeouts, oldest first,
                         \*   each the rideRequests its closure captured
    apiRoutes,           \* LastMileDemo: last applied feed response
    apiError,            \* LastMileDemo: apiError is set
    pollsInFlight,       \* LastMileDemo: fetchRoutes calls awaiting the feed
    pickup,              \* LastMileAI: selected pickup or Null
    destination,         \* LastMileAI: selected destination or Null
    passengers,          \* LastMileAI: passenger counter of the form
    requests,            \* LastMileAI: request store
    routes,              \* LastMileAI: published routes
    statsTotal,          \* LastMileAI: stats.total
    isLoading,           \* LastMileAI: submitRequest is awaiting its routes
    pendingRoutes,       \* LastMileAI: clusters of the submitRequest in flight
    clInput,             \* SpecCluster: the request list handed to the run
    clOutput,            \* SpecCluster: the clusters returned
    clDone,              \* SpecCluster: the run has been applied
    clRepeated,          \* SpecClusterTwice: the run has been made again
    isMounted,           \* SpecPoll: the flag of the polling effect's closure
    pollStarted,         \* SpecPoll: number of fetchRoutes calls made so far
    pollOpen,            \* SpecPoll: the calls awaiting the feed, by number
    pollShown            \* SpecPoll: the call whose outcome was applied last

demoVars == <<rideRequests, optimizedRoutes, totalRequests, selectedOrigin,
              selectedDestination, isOptimizing, optTimers, apiRoutes,
              apiError, pollsInFlight>>
aiVars == <<pickup, destination, passengers, requests, routes, statsTotal,
            isLoading, pendingRoutes>>
clVars == <<clInput, clOutput, clDone, clRepeated>>
pollVars == <<isMounted, pollStarted, pollOpen, pollShown>>
vars == <<demoVars, aiVars, clVars, pollVars>>

Null == "null"
NoRegion == ""

-----------------------------------------------------------------------------
(* Bounds of the model.                                                    *)

MaxRequests == 4
MaxInFlight == 1
MaxPolls == 3
MaxRequestsAI == 2
MaxLen == 5
ClickRun == 19

-----------------------------------------------------------------------------
(* Program constants.                                                      *)

ClusterLimit == 4
OptimizeThreshold == 3
GenLimit == 8
UserPassengers == 1

-----------------------------------------------------------------------------
(* The location catalogue of LastMileDemo (coordinates in 1e-4 degrees).   *)

CYPRUS_LOCATIONS ==
    [ nicosia    |-> [type |-> "city", region |-> NoRegion, lat |-> 351856, lng |-> 333823],
      limassol   |-> [type |-> "city", region |-> NoRegion, lat |-> 346786, lng |-> 330413],
      larnaca    |-> [type |-> "city", region |-> NoRegion, lat |-> 349229, lng |-> 336233],
      paphos     |-> [type |-> "city", region |-> NoRegion, lat |-> 347754, lng |-> 324245],
      kakopetria |-> [type |-> "village", region |-> "Troodos", lat |-> 349833, lng |-> 329000],
      platres    |-> [type |-> "village", region |-> "Troodos", lat |-> 348897, lng |-> 328639],
      lefkara    |-> [type |-> "village", region |-> "Larnaca", lat |-> 348667, lng |-> 333000],
      omodos     |-> [type |-> "village", region |-> "Limassol", lat |-> 348472, lng |-> 328083],
      fikardou   |-> [type |-> "village", region |-> "Nicosia", lat |-> 349667, lng |-> 331333],
      peyia      |-> [type |-> "village", region |-> "Paphos", lat |-> 348833, lng |-> 323500],
      nissi      |-> [type |-> "beach", region |-> NoRegion, lat |-> 349875, lng |-> 340028],
      coral      |-> [type |-> "beach", region |-> NoRegion, lat |-> 348553, lng |-> 323569],
      konnos     |-> [type |-> "beach", region |-> NoRegion, lat |-> 349764, lng |-> 340764],
      kourion    |-> [type |-> "archaeological", region |-> NoRegion, lat |-> 346647, lng |-> 328872],
      tombs      |-> [type |-> "archaeological", region |-> NoRegion, lat |-> 347728, lng |-> 324072] ]

Cities == {"nicosia", "limassol", "larnaca", "paphos"}
ALL_DESTINATIONS == {"kakopetria", "platres", "lefkara", "omodos", "fikardou", "peyia",
                     "nissi", "coral", "konnos", "kourion", "tombs"}

(* The draws and clicks the model explores: subsets of the catalogue.      *)
GenOrigins == {"nicosia"}
GenDestinations == {"platres", "omodos"}
GenPassengers == {4}
UserOrigins == {"nicosia"}
UserDestinations == {"platres"}
ClusterOrigins == {"nicosia"}
ClusterDestinations == {"platres", "omodos", "nissi", "coral"}
\* Requests from two cities, for the stop lists of the clusters.
StopOrigins == {"nicosia", "limassol"}
StopDestinations == {"platres", "omodos"}

-----------------------------------------------------------------------------
(* Sequence helpers (Array.prototype.filter / map, Map insertion order).   *)

Range(s) == {s[i] : i \in DOMAIN s}

\* The distinct elements of s in the order of their first occurrence:
\* [...new Map(s.map(x => [x, ..])).keys()].
RECURSIVE FirstSeen(_)
FirstSeen(s) ==
    IF s = <<>> THEN <<>>
    ELSE LET front == FirstSeen(SubSeq(s, 1, Len(s) - 1))
             last == s[Len(s)]
         IN IF last \in Range(front) THEN front ELSE Append(front, last)

Count(s, x) == Cardinality({i \in DOMAIN s : s[i] = x})

\* [...counts.entries()].sort((a, b) => b[1] - a[1])[0][0]: the sort is stable,
\* so among the most frequent keys the first seen comes first.
MostFrequent(s) ==
    LET keys == FirstSeen(s)
        best == CHOOSE i \in DOMAIN keys :
                    /\ \A j \in DOMAIN keys : Count(s, keys[j]) <= Count(s, keys[i])
                    /\ \A j \in 1..(i - 1) : Count(s, keys[j]) < Count(s, keys[i])
    IN keys[best]

RECURSIVE SumPassengers(_)
SumPassengers(s) ==
    IF s = <<>> THEN 0 ELSE Head(s).passengers + SumPassengers(Tail(s))

-----------------------------------------------------------------------------
(* Identifiers.                                                            *)

\* Math.random().toString(36).substr(2, 9): a random string, drawn with no
\* check against the ids already issued.  Ids are only compared for equality,
\* so a draw is either an id some stored request already has or a new one,
\* and new ones are numbered in order of appearance.
UsedIds(store) == {store[i].id : i \in DOMAIN store}
FreshId(store) == CHOOSE k \in 1..(Len(store) + 1) :
                      /\ k \notin UsedIds(store)
                      /\ \A j \in 1..(k - 1) : j \in UsedIds(store)
RandomIds(store) == UsedIds(store) \cup {FreshId(store)}

\* `LM-${String(vehicleIndex).padStart(3, '0')}`
RECURSIVE Digits(_)
Digits(n) == IF n < 10 THEN <<n>> ELSE Append(Digits(n \div 10), n % 10)
RECURSIVE PadStart(_, _, _)
PadStart(s, width, fill) ==
    IF Len(s) >= width THEN s ELSE PadStart(<<fill>> \o s, width, fill)
VehicleId(vehicleIndex) == <<"LM">> \o PadStart(Digits(vehicleIndex), 3, 0)

-----------------------------------------------------------------------------
(* simulateRLOptimization.                                                 *)

\* req.destination.region || req.destination.type
CompatKey(dest) ==
    IF CYPRUS_LOCATIONS[dest].region # NoRegion
    THEN CYPRUS_LOCATIONS[dest].region
    ELSE CYPRUS_LOCATIONS[dest].type

\* A variant that compares the categories only.
AdmitsByType(other, req, cluster, processed) ==
    /\ other.id \notin processed
    /\ CYPRUS_LOCATIONS[other.destination].type = CYPRUS_LOCATIONS[req.destination].type
    /\ Len(cluster) < ClusterLimit

\* A variant whose answer depends on when the run is made: it admits only
\* in the first run on a list.
AdmitsOnFirstRun(other, req, cluster, processed) ==
    /\ other.id \notin processed
    /\ CompatKey(other.destination) = CompatKey(req.destination)
    /\ Len(cluster) < ClusterLimit
    /\ ~clDone

\* The condition under which the inner loop adds `other` to req's cluster.
Admits(other, req, cluster, processed) ==
    /\ other.id \notin processed
    /\ CompatKey(other.destination) = CompatKey(req.destination)
    /\ Len(cluster) < ClusterLimit

\* requests.forEach(other => ...) for one seed request.
RECURSIVE ScanOthers(_, _, _, _, _)
ScanOthers(reqs, j, req, cluster, processed) ==
    IF j > Len(reqs) THEN [cluster |-> cluster, processed |-> processed]
    ELSE IF Admits(reqs[j], req, cluster, processed)
         THEN ScanOthers(reqs, j + 1, req, Append(cluster, reqs[j]),
                         processed \cup {reqs[j].id})
         ELSE ScanOthers(reqs, j + 1, req, cluster, processed)

\* The record pushed for one cluster.
MakeCluster(cluster, vehicleIndex) ==
    LET dests == [i \in DOMAIN cluster |-> cluster[i].destination]
        origins == [i \in DOMAIN cluster |-> cluster[i].origin]
        uniqueDestinations == FirstSeen(dests)
    IN [ vehicleId |-> VehicleId(vehicleIndex),
         requests |-> cluster,
         totalPassengers |-> SumPassengers(cluster),
         co2Saved |-> Len(cluster) * 25,
         primaryDestinationId |-> MostFrequent(dests),
         destinationIds |-> uniqueDestinations,
         routeStops |-> <<MostFrequent(origins)>> \o uniqueDestinations ]

\* requests.forEach(req => ...), from request i on.
RECURSIVE SimulateFrom(_, _, _, _, _)
SimulateFrom(reqs, i, clusters, processed, vehicleIndex) ==
    IF i > Len(reqs) THEN clusters
    ELSE IF reqs[i].id \in processed
         THEN SimulateFrom(reqs, i + 1, clusters, processed, vehicleIndex)
         ELSE LET scan == ScanOthers(reqs, 1, reqs[i], <<reqs[i]>>,
                                     processed \cup {reqs[i].id})
              IN SimulateFrom(reqs, i + 1,
                              Append(clusters, MakeCluster(scan.cluster, vehicleIndex)),
                              scan.processed, vehicleIndex + 1)

simulateRLOptimization(reqs) == SimulateFrom(reqs, 1, <<>>, {}, 1)

-----------------------------------------------------------------------------
(* LastMileDemo.                                                           *)

IsPending(r) == r.status = "pending"
\* store.filter(r => r.status === 'pending')
PendingOf(store) == SelectSeq(store, IsPending)

\* A variant that waits for more than the threshold.
OptimizationEffectStrict(store, timers, flag) ==
    IF Len(PendingOf(store)) > OptimizeThreshold
    THEN /\ isOptimizing' = TRUE
         /\ optTimers' = Append(timers, store)
    ELSE /\ isOptimizing' = flag
         /\ optTimers' = timers

\* The optimization effect, run for the render that shows `store`: with the
\* threshold reached it sets isOptimizing and schedules the 1500 ms timer.
\* `timers` and `flag` are the pending timers and the flag as the handler
\* that caused the render left them.
OptimizationEffect(store, timers, flag) ==
    IF Len(PendingOf(store)) >= OptimizeThreshold
    THEN /\ isOptimizing' = TRUE
         /\ optTimers' = Append(timers, store)
    ELSE /\ isOptimizing' = flag
         /\ optTimers' = timers

\* The request object generateRideRequest / handleRequestRide build.  n is
\* the object's identity (its position in the append-only store).
NewRequest(store, id, origin, dest, pass) ==
    [ n |-> Len(store) + 1, id |-> id, origin |-> origin, destination |-> dest,
      passengers |-> pass, status |-> "pending" ]

\* The 3000 ms interval of the request generator fires.  The interval is
\* restarted at every change of rideRequests.length, and a 1500 ms timer is
\* only ever set at such a change, so every pending timer is due before the
\* next tick.
GeneratorTick ==
    /\ optTimers = <<>>
    /\ Len(rideRequests) < GenLimit
    /\ Len(rideRequests) < MaxRequests
    /\ \E id \in RandomIds(rideRequests), origin \in GenOrigins,
          dest \in GenDestinations, pass \in GenPassengers :
           LET store == Append(rideRequests,
                               NewRequest(rideRequests, id, origin, dest, pass))
           IN /\ rideRequests' = store
              /\ OptimizationEffect(store, optTimers, isOptimizing)
    /\ totalRequests' = totalRequests + 1
    /\ UNCHANGED <<optimizedRoutes, selectedOrigin, selectedDestination,
                   apiRoutes, apiError, pollsInFlight>>
    /\ UNCHANGED <<aiVars, clVars, pollVars>>

\* The same tick, followed up to the generator's own limit of GenLimit
\* requests, with ids that do not repeat.
GeneratorTickToLimit ==
    /\ optTimers = <<>>
    /\ Len(rideRequests) < GenLimit
    /\ \E origin \in GenOrigins, dest \in GenDestinations, pass \in GenPassengers :
           LET store == Append(rideRequests,
                               NewRequest(rideRequests, FreshId(rideRequests),
                                          origin, dest, pass))
           IN /\ rideRequests' = store
              /\ OptimizationEffect(store, optTimers, isOptimizing)
    /\ totalRequests' = totalRequests + 1
    /\ UNCHANGED <<optimizedRoutes, selectedOrigin, selectedDestination,
                   apiRoutes, apiError, pollsInFlight>>
    /\ UNCHANGED <<aiVars, clVars, pollVars>>

\* A pickup button is clicked.
SelectOrigin ==
    /\ \E city \in UserOrigins : selectedOrigin' = city
    /\ UNCHANGED <<rideRequests, optimizedRoutes, totalRequests, selectedDestination,
                   isOptimizing, optTimers, apiRoutes, apiError, pollsInFlight>>
    /\ UNCHANGED <<aiVars, clVars, pollVars>>

\* A destination button is clicked.
SelectDestination ==
    /\ \E loc \in UserDestinations : selectedDestination' = loc
    /\ UNCHANGED <<rideRequests, optimizedRoutes, totalRequests, selectedOrigin,
                   isOptimizing, optTimers, apiRoutes, apiError, pollsInFlight>>
    /\ UNCHANGED <<aiVars, clVars, pollVars>>

\* handleRequestRide with both selections made.
HandleRequestRide ==
    /\ selectedOrigin # Null /\ selectedDestination # Null
    /\ Len(rideRequests) < MaxRequests
    /\ \E id \in RandomIds(rideRequests) :
           LET store == Append(rideRequests,
                               NewRequest(rideRequests, id, selectedOrigin,
                                          selectedDestination, UserPassengers))
           IN /\ rideRequests' = store
              /\ OptimizationEffect(store, optTimers, isOptimizing)
    /\ totalRequests' = totalRequests + 1
    /\ selectedOrigin' = Null
    /\ selectedDestination' = Null
    /\ UNCHANGED <<optimizedRoutes, apiRoutes, apiError, pollsInFlight>>
    /\ UNCHANGED <<aiVars, clVars, pollVars>>

\* A variant whose counter update reads the rendered value, as
\* setStats({ ...stats, totalRequests: stats.totalRequests + 1 }) would.
SubmissionsBeforeRenderStale ==
    /\ optTimers = <<>>
    /\ Len(rideRequests) < GenLimit
    /\ selectedOrigin # Null /\ selectedDestination # Null
    /\ Len(rideRequests) + 1 < MaxRequests
    /\ \E origin \in GenOrigins, dest \in GenDestinations, pass \in GenPassengers :
           LET generated == Append(rideRequests,
                                   NewRequest(rideRequests, FreshId(rideRequests),
                                              origin, dest, pass))
           IN \E id \in RandomIds(generated) :
                  LET store == Append(generated,
                                      NewRequest(generated, id, selectedOrigin,
                                                 selectedDestination, UserPassengers))
                  IN /\ rideRequests' = store
                     /\ OptimizationEffect(store, optTimers, isOptimizing)
    /\ totalRequests' = totalRequests + 1
    /\ selectedOrigin' = Null
    /\ selectedDestination' = Null
    /\ UNCHANGED <<optimizedRoutes, apiRoutes, apiError, pollsInFlight>>
    /\ UNCHANGED <<aiVars, clVars, pollVars>>

\* Two submissions before the component renders again: the generator's
\* interval fires and, before React has rendered the update, the click on
\* "Request Ride" is handled, so handleRequestRide is the one of the same
\* render.  The updater functions queued by both (prev => [...prev,
\* newRequest], prev => ({...prev, totalRequests: prev.totalRequests + 1}))
\* are applied in order in one render, and the effect runs for its store.
SubmissionsBeforeRender ==
    /\ optTimers = <<>>
    /\ Len(rideRequests) < GenLimit
    /\ selectedOrigin # Null /\ selectedDestination # Null
    /\ Len(rideRequests) + 1 < MaxRequests
    /\ \E origin \in GenOrigins, dest \in GenDestinations, pass \in GenPassengers :
           LET generated == Append(rideRequests,
                                   NewRequest(rideRequests, FreshId(rideRequests),
                                              origin, dest, pass))
           IN \E id \in RandomIds(generated) :
                  LET store == Append(generated,
                                      NewRequest(generated, id, selectedOrigin,
                                                 selectedDestination, UserPassengers))
                  IN /\ rideRequests' = store
                     /\ OptimizationEffect(store, optTimers, isOptimizing)
    /\ totalRequests' = totalRequests + 2
    /\ selectedOrigin' = Null
    /\ selectedDestination' = Null
    /\ UNCHANGED <<optimizedRoutes, apiRoutes, apiError, pollsInFlight>>
    /\ UNCHANGED <<aiVars, clVars, pollVars>>

\* handleRequestRide without a complete selection: nothing happens.
HandleRequestRideRejected ==
    /\ selectedOrigin = Null \/ selectedDestination = Null
    /\ UNCHANGED vars

\* A variant that flips the status.
MarkToggled(r) ==
    [r EXCEPT !.status = IF r.status = "pending" THEN "assigned" ELSE "pending"]
\* r => ({ ...r, status: 'assigned' })
MarkAssigned(r) == [r EXCEPT !.status = "assigned"]

\* The oldest pending timer fires: the callback clusters the pending
\* requests of the render that scheduled it, publishes the clusters and
\* marks the requests assigned.  The effect then runs for the new store.
OptimizationTimerFires ==
    /\ optTimers # <<>>
    /\ LET captured == Head(optTimers)
           optimized == simulateRLOptimization(PendingOf(captured))
           store == [i \in DOMAIN rideRequests |-> MarkAssigned(rideRequests[i])]
       IN /\ optimizedRoutes' = optimized
          /\ rideRequests' = store
          /\ OptimizationEffect(store, Tail(optTimers), FALSE)
    /\ UNCHANGED <<totalRequests, selectedOrigin, selectedDestination,
                   apiRoutes, apiError, pollsInFlight>>
    /\ UNCHANGED <<aiVars, clVars, pollVars>>

-----------------------------------------------------------------------------
(* The polled route feed of LastMileDemo.                                  *)

\* Records the feed may return (co2_saved_kg in tenths of a kg).
FeedRoute(vehicleIndex, stops, pass) ==
    [ vehicle_id |-> VehicleId(vehicleIndex), route |-> stops,
      total_passengers |-> pass, efficiency_score |-> 80, co2_saved_kg |-> 42 ]

\* Bodies a poll may receive: JSON arrays of route records, or JSON that is
\* not an array.  The figures of a record are any JSON numbers; one record
\* carries a CO2 figure below zero.
FeedBodies ==
    { [isArray |-> TRUE, items |-> <<>>],
      [isArray |-> TRUE, items |-> <<FeedRoute(1, <<"platres">>, 3)>>],
      [isArray |-> TRUE, items |-> <<FeedRoute(1, <<"platres">>, 3),
                                     [FeedRoute(1, <<"omodos">>, 2)
                                          EXCEPT !.co2_saved_kg = -42]>>],
      [isArray |-> FALSE, items |-> <<>>] }

\* A variant that adds the records of a response to the held feed.
ArrayAppended(data) == apiRoutes \o (IF data.isArray THEN data.items ELSE <<>>)

\* Array.isArray(data) ? data : []
ArrayOrEmpty(data) == IF data.isArray THEN data.items ELSE <<>>

\* Math.max(10, Math.round((route.efficiency_score || 50) / 2)), for the
\* non-negative integer scores of the model.
EstimatedSavings(score) ==
    LET s == IF score = 0 THEN 50 ELSE score
        half == (s + 1) \div 2
    IN IF half > 10 THEN half ELSE 10

\* apiRouteViews: the feed records as the view shows them.
ApiRouteView(route) ==
    [ id |-> route.vehicle_id,
      vehicleId |-> route.vehicle_id,
      routeStops |-> route.route,
      destinationIds |-> route.route,
      totalPassengers |-> route.total_passengers,
      estimatedSavings |-> EstimatedSavings(route.efficiency_score),
      co2Saved |-> route.co2_saved_kg ]

apiRouteViews == [i \in DOMAIN apiRoutes |-> ApiRouteView(apiRoutes[i])]

\* A variant that shows the local routes whenever there are any.
activeRoutesLocalFirst ==
    IF Len(optimizedRoutes) > 0 THEN optimizedRoutes ELSE apiRouteViews

\* The routes the interface shows.
activeRoutesForUI ==
    IF Len(apiRouteViews) > 0 THEN apiRouteViews ELSE optimizedRoutes

\* The seats of the three transport options.
ShuttleSeats == 4
MinibusSeats == 8
CoachSeats == 12

\* transportOptions with destination `focus` focused: one option per shown
\* route that serves it.
\* capacity = totalPassengers <= 4 ? 4 : totalPassengers <= 8 ? 8 : 12
transportOptions(focus) ==
    LET serves(route) == \E j \in DOMAIN route.destinationIds :
                             route.destinationIds[j] = focus
        routesForDestination == SelectSeq(activeRoutesForUI, serves)
    IN [i \in DOMAIN routesForDestination |->
           LET route == routesForDestination[i]
               capacity == IF route.totalPassengers <= ShuttleSeats THEN ShuttleSeats
                           ELSE IF route.totalPassengers <= MinibusSeats THEN MinibusSeats
                           ELSE CoachSeats
           IN [ id |-> route.vehicleId,
                capacity |-> capacity,
                occupancy |-> route.totalPassengers,
                full |-> ~(route.totalPassengers < capacity) ]]

\* The 4000 ms interval calls fetchRoutes.
PollStarts ==
    /\ pollsInFlight < MaxInFlight
    /\ pollsInFlight' = pollsInFlight + 1
    /\ UNCHANGED <<rideRequests, optimizedRoutes, totalRequests, selectedOrigin,
                   selectedDestination, isOptimizing, optTimers, apiRoutes, apiError>>
    /\ UNCHANGED <<aiVars, clVars, pollVars>>

\* A variant that also resets the local routes when a response comes.
PollSucceedsResetsLocal ==
    /\ pollsInFlight > 0
    /\ \E data \in FeedBodies : apiRoutes' = ArrayOrEmpty(data)
    /\ apiError' = FALSE
    /\ pollsInFlight' = pollsInFlight - 1
    /\ optimizedRoutes' = <<>>
    /\ UNCHANGED <<rideRequests, totalRequests, selectedOrigin,
                   selectedDestination, isOptimizing, optTimers>>
    /\ UNCHANGED <<aiVars, clVars, pollVars>>

\* A fetchRoutes call receives a 2xx response with a JSON body.
PollSucceeds ==
    /\ pollsInFlight > 0
    /\ \E data \in FeedBodies : apiRoutes' = ArrayOrEmpty(data)
    /\ apiError' = FALSE
    /\ pollsInFlight' = pollsInFlight - 1
    /\ UNCHANGED <<rideRequests, optimizedRoutes, totalRequests, selectedOrigin,
                   selectedDestination, isOptimizing, optTimers>>
    /\ UNCHANGED <<aiVars, clVars, pollVars>>

\* A variant that leaves the held feed as it is.
PollFailsKeepsRoutes ==
    /\ pollsInFlight > 0
    /\ apiError' = TRUE
    /\ pollsInFlight' = pollsInFlight - 1
    /\ UNCHANGED <<rideRequests, optimizedRoutes, totalRequests, selectedOrigin,
                   selectedDestination, isOptimizing, optTimers, apiRoutes>>
    /\ UNCHANGED <<aiVars, clVars, pollVars>>

\* A fetchRoutes call fails: network error, non-2xx status or bad JSON.
PollFails ==
    /\ pollsInFlight > 0
    /\ apiRoutes' = <<>>
    /\ apiError' = TRUE
    /\ pollsInFlight' = pollsInFlight - 1
    /\ UNCHANGED <<rideRequests, optimizedRoutes, totalRequests, selectedOrigin,
                   selectedDestination, isOptimizing, optTimers>>
    /\ UNCHANGED <<aiVars, clVars, pollVars>>

-----------------------------------------------------------------------------
(* LastMileAI.                                                             *)

MinPassengers == 1
MaxPassengers == 20
NearbyKm == 20
SmallCapacity == 4
MediumCapacity == 8
LargeCapacity == 20

\* The markers of LOCATIONS the model clicks.
AiLocations == {"nicosia", "kakopetria", "galata"}

\* Their coordinates in LOCATIONS, in 1e-4 degrees.
LOCATIONS ==
    [ nicosia    |-> [lat |-> 351856, lng |-> 333823],
      kakopetria |-> [lat |-> 349833, lng |-> 329000],
      galata     |-> [lat |-> 349833, lng |-> 328917] ]

\* getDistance on the coordinates of those markers, in metres.
DistanceTable ==
    [ nicosia    |-> [nicosia |-> 0, kakopetria |-> 49314, galata |-> 49988],
      kakopetria |-> [nicosia |-> 49314, kakopetria |-> 0, galata |-> 756],
      galata     |-> [nicosia |-> 49988, kakopetria |-> 756, galata |-> 0] ]
getDistance(a, b) == DistanceTable[a][b]

VEHICLES ==
    [ small  |-> [name |-> "Mini Van", capacity |-> SmallCapacity, co2 |-> 15],
      medium |-> [name |-> "Minibus", capacity |-> MediumCapacity, co2 |-> 22],
      large  |-> [name |-> "Bus", capacity |-> LargeCapacity, co2 |-> 30] ]

selectVehicle(pass) ==
    IF pass <= SmallCapacity THEN VEHICLES.small
    ELSE IF pass <= MediumCapacity THEN VEHICLES.medium
    ELSE VEHICLES.large

\* The condition under which submitRequest adds `other` to req's cluster.
IsNearby(other, req, cluster, used) ==
    /\ other.id \notin used
    /\ getDistance(req.destination, other.destination) < NearbyKm * 1000

\* newRequests.forEach(other => ...) for one seed request.
RECURSIVE ScanNearby(_, _, _, _, _)
ScanNearby(reqs, j, req, cluster, used) ==
    IF j > Len(reqs) THEN [cluster |-> cluster, used |-> used]
    ELSE IF IsNearby(reqs[j], req, cluster, used)
         THEN ScanNearby(reqs, j + 1, req, Append(cluster, reqs[j]),
                         used \cup {reqs[j].id})
         ELSE ScanNearby(reqs, j + 1, req, cluster, used)

\* newRequests.forEach(req => ...), from request i on.
RECURSIVE ClusterFrom(_, _, _, _)
ClusterFrom(reqs, i, clusters, used) ==
    IF i > Len(reqs) THEN clusters
    ELSE IF reqs[i].id \in used
         THEN ClusterFrom(reqs, i + 1, clusters, used)
         ELSE LET scan == ScanNearby(reqs, 1, reqs[i], <<reqs[i]>>,
                                     used \cup {reqs[i].id})
              IN ClusterFrom(reqs, i + 1, Append(clusters, scan.cluster), scan.used)

ClusterByDistance(reqs) == ClusterFrom(reqs, 1, <<>>, {})

\* [...pickups, ...dests]: the distinct pickups, then the distinct
\* destinations, of a cluster.
StopsOf(cluster) ==
    FirstSeen([i \in DOMAIN cluster |-> cluster[i].pickup])
        \o FirstSeen([i \in DOMAIN cluster |-> cluster[i].destination])

\* stops.reduce(... getDistance(stops[i-1], s) ...), in metres.
RECURSIVE StraightLength(_)
StraightLength(stops) ==
    IF Len(stops) < 2 THEN 0
    ELSE StraightLength(SubSeq(stops, 1, Len(stops) - 1))
             + getDistance(stops[Len(stops) - 1], stops[Len(stops)])

\* What a call of the routing provider can do: answer with a route, throw
\* (network error, body that is not JSON), answer with a code other than
\* 'Ok', or answer 'Ok' with a payload that lacks the route or its geometry.
ProviderOutcomes == {"Ok", "throws", "notOk", "malformed"}

\* The road data of the provider's answers in the model: a polyline of
\* [lng, lat] points through the stops with the midpoint of every leg, 1.3
\* times the straight length, driven at 60 km/h.
RECURSIVE RoadGeometry(_)
RoadGeometry(stops) ==
    IF Len(stops) = 0 THEN <<>>
    ELSE IF Len(stops) = 1 THEN <<<<LOCATIONS[stops[1]].lng, LOCATIONS[stops[1]].lat>>>>
    ELSE LET a == LOCATIONS[stops[Len(stops) - 1]]
             b == LOCATIONS[stops[Len(stops)]]
         IN RoadGeometry(SubSeq(stops, 1, Len(stops) - 1))
                \o << <<(a.lng + b.lng) \div 2, (a.lat + b.lat) \div 2>>,
                      <<b.lng, b.lat>> >>
RoadMetres(stops) == (StraightLength(stops) * 13) \div 10
RoadMinutes(stops) == (RoadMetres(stops) + 500) \div 1000

\* What a call of fetchRoute can give besides road data: null, or a promise
\* that rejected.  null geometry is written as the empty polyline; a
\* polyline of the provider has at least three points.
NoRouteData == [code |-> "null"]
Rejected == [code |-> "rejected"]
NoGeometry == <<>>

\* A variant without the try/catch: a throwing call rejects.
fetchRouteUncaught(stops, outcome) ==
    IF Len(stops) < 2 THEN NoRouteData
    ELSE IF outcome = "Ok"
         THEN [code |-> "Ok", geometry |-> RoadGeometry(stops),
               distance |-> RoadMetres(stops), duration |-> RoadMinutes(stops)]
         ELSE IF outcome = "notOk" THEN NoRouteData ELSE Rejected

\* fetchRoute: the road data (distance in metres, duration in minutes), or
\* null when there are fewer than two stops or the call did not give a route.
fetchRoute(stops, outcome) ==
    IF Len(stops) < 2 THEN NoRouteData
    ELSE IF outcome = "Ok"
         THEN [code |-> "Ok", geometry |-> RoadGeometry(stops),
               distance |-> RoadMetres(stops), duration |-> RoadMinutes(stops)]
         ELSE NoRouteData

\* x.toFixed(1) of x = num / den >= 0, in tenths.
ToFixed1(num, den) == (10 * num + den \div 2) \div den

\* The route submitRequest builds for one cluster from what fetchRoute
\* returned.  distance is in tenths of a km, time in minutes, co2 in tenths
\* of a kg (the factors 0.21 and vehicle.co2 in 1/100 kg per km).
BuildRoute(cluster, routeData) ==
    LET totalPass == SumPassengers(cluster)
        vehicle == selectVehicle(totalPass)
        stops == StopsOf(cluster)
        dist == IF routeData # NoRouteData THEN routeData.distance ELSE StraightLength(stops)
        carCO2 == totalPass * dist * 21
        busCO2 == dist * vehicle.co2
        saved == IF carCO2 - busCO2 > 0 THEN carCO2 - busCO2 ELSE 0
    IN [ stops |-> stops,
         vehicle |-> vehicle,
         passengers |-> totalPass,
         distance |-> ToFixed1(dist, 1000),
         time |-> IF routeData # NoRouteData THEN routeData.duration
                  ELSE (dist * 60 + 22500) \div 45000,
         co2 |-> ToFixed1(saved, 100000),
         geometry |-> IF routeData # NoRouteData THEN routeData.geometry ELSE NoGeometry,
         requests |-> cluster ]

\* A marker of the map is clicked.
MarkerClick ==
    /\ \E loc \in AiLocations :
           IF pickup = Null
           THEN pickup' = loc /\ UNCHANGED destination
           ELSE IF loc # pickup
                THEN destination' = loc /\ UNCHANGED pickup
                ELSE UNCHANGED <<pickup, destination>>
    /\ UNCHANGED <<passengers, requests, routes, statsTotal, isLoading, pendingRoutes>>
    /\ UNCHANGED <<demoVars, clVars, pollVars>>

\* One click on "-": Math.max(1, passengers - 1).
MinusClick(p) == IF p - 1 > MinPassengers THEN p - 1 ELSE MinPassengers
\* A variant of "+" without the upper limit.
PlusClickUnbounded(p) == p + 1
\* One click on "+": Math.min(20, passengers + 1).
PlusClick(p) == IF p + 1 < MaxPassengers THEN p + 1 ELSE MaxPassengers

RECURSIVE MinusClicks(_, _)
MinusClicks(p, k) == IF k = 0 THEN p ELSE MinusClicks(MinusClick(p), k - 1)
RECURSIVE PlusClicks(_, _)
PlusClicks(p, k) == IF k = 0 THEN p ELSE PlusClicks(PlusClick(p), k - 1)

\* The "-" button is clicked ClickRun times in a row.
PassengersMinus ==
    /\ passengers' = MinusClicks(passengers, ClickRun)
    /\ UNCHANGED <<pickup, destination, requests, routes, statsTotal, isLoading,
                   pendingRoutes>>
    /\ UNCHANGED <<demoVars, clVars, pollVars>>

\* The "+" button is clicked ClickRun times in a row.
PassengersPlus ==
    /\ passengers' = PlusClicks(passengers, ClickRun)
    /\ UNCHANGED <<pickup, destination, requests, routes, statsTotal, isLoading,
                   pendingRoutes>>
    /\ UNCHANGED <<demoVars, clVars, pollVars>>

\* "Clear Selection".
ClearSelection ==
    /\ pickup' = Null
    /\ destination' = Null
    /\ UNCHANGED <<passengers, requests, routes, statsTotal, isLoading, pendingRoutes>>
    /\ UNCHANGED <<demoVars, clVars, pollVars>>

\* submitRequest up to its await: the request is stored and counted, the
\* store is clustered, and the routes are asked for.
SubmitRequest ==
    /\ pickup # Null /\ destination # Null
    /\ ~isLoading
    /\ Len(requests) < MaxRequestsAI
    /\ \E id \in RandomIds(requests) :
           LET newRequest == [id |-> id, pickup |-> pickup, destination |-> destination,
                              passengers |-> passengers]
               newRequests == Append(requests, newRequest)
           IN /\ requests' = newRequests
              /\ pendingRoutes' = ClusterByDistance(newRequests)
    /\ statsTotal' = statsTotal + 1
    /\ isLoading' = TRUE
    /\ UNCHANGED <<pickup, destination, passengers, routes>>
    /\ UNCHANGED <<demoVars, clVars, pollVars>>

\* submitRequest without a complete selection returns at once.
SubmitRequestRejected ==
    /\ pickup = Null \/ destination = Null
    /\ UNCHANGED vars

\* submitRequest after its await: every fetchRoute has returned road data
\* or null; the routes are published and the form is reset.
RoutesArrive ==
    /\ isLoading
    /\ pendingRoutes # <<>>
    /\ \E outcome \in [DOMAIN pendingRoutes -> ProviderOutcomes] :
           LET routeData == [i \in DOMAIN pendingRoutes |->
                                fetchRoute(StopsOf(pendingRoutes[i]), outcome[i])]
           IN IF \E i \in DOMAIN routeData : routeData[i] = Rejected
              THEN \* Promise.all rejects and submitRequest ends there.
                   UNCHANGED <<routes, pickup, destination, passengers, isLoading>>
              ELSE /\ routes' = [i \in DOMAIN pendingRoutes |->
                                     BuildRoute(pendingRoutes[i], routeData[i])]
                   /\ pickup' = Null
                   /\ destination' = Null
                   /\ passengers' = 1
                   /\ isLoading' = FALSE
    /\ pendingRoutes' = <<>>
    /\ UNCHANGED <<requests, statsTotal>>
    /\ UNCHANGED <<demoVars, clVars, pollVars>>

\* A variant that leaves the request store as it is.
clearAllKeepsRequests ==
    /\ Len(routes) > 0
    /\ routes' = <<>>
    /\ pickup' = Null
    /\ destination' = Null
    /\ statsTotal' = 0
    /\ UNCHANGED <<requests, passengers, isLoading, pendingRoutes>>
    /\ UNCHANGED <<demoVars, clVars, pollVars>>

\* "Clear All", shown while there are routes.
clearAll ==
    /\ Len(routes) > 0
    /\ routes' = <<>>
    /\ requests' = <<>>
    /\ pickup' = Null
    /\ destination' = Null
    /\ statsTotal' = 0
    /\ UNCHANGED <<passengers, isLoading, pendingRoutes>>
    /\ UNCHANGED <<demoVars, clVars, pollVars>>

-----------------------------------------------------------------------------
(* simulateRLOptimization applied to request lists of bounded length.      *)

\* The ids of the lists: pairwise distinct, or with one id drawn twice.
ClusterIds(store) ==
    IF Cardinality(UsedIds(store)) = Len(store)
    THEN RandomIds(store)
    ELSE {FreshId(store)}

\* One more pending request joins the list.
ClusterInputGrows ==
    /\ ~clDone
    /\ Len(clInput) < MaxLen
    /\ \E id \in ClusterIds(clInput), origin \in ClusterOrigins,
          dest \in ClusterDestinations :
           clInput' = Append(clInput, NewRequest(clInput, id, origin, dest, UserPassengers))
    /\ UNCHANGED <<clOutput, clDone, clRepeated>>
    /\ UNCHANGED <<demoVars, aiVars, pollVars>>

\* One more pending request, from one of two cities, joins the list.
ClusterInputGrowsStops ==
    /\ ~clDone
    /\ Len(clInput) < MaxLen
    /\ \E id \in ClusterIds(clInput), origin \in StopOrigins,
          dest \in StopDestinations :
           clInput' = Append(clInput, NewRequest(clInput, id, origin, dest, UserPassengers))
    /\ UNCHANGED <<clOutput, clDone, clRepeated>>
    /\ UNCHANGED <<demoVars, aiVars, pollVars>>

\* The values Math.random() * 10 takes for the clusters of one run, floored:
\* the least or the greatest for every cluster.
SavingsDraws(clusters) ==
    {[i \in DOMAIN clusters |-> 0], [i \in DOMAIN clusters |-> 9]}

\* The field of a cluster record that is drawn at random:
\* Math.floor(cluster.length * 15 + Math.random() * 10).
WithEstimatedSavings(clusters, draw) ==
    [i \in DOMAIN clusters |->
        [estimatedSavings |-> Len(clusters[i].requests) * 15 + draw[i]]
            @@ clusters[i]]

\* The run is made on the list.
ClusterRun ==
    /\ ~clDone
    /\ LET optimized == simulateRLOptimization(PendingOf(clInput))
       IN \E draw \in SavingsDraws(optimized) :
              clOutput' = WithEstimatedSavings(optimized, draw)
    /\ clDone' = TRUE
    /\ UNCHANGED <<clInput, clRepeated>>
    /\ UNCHANGED <<demoVars, aiVars, pollVars>>

\* The run is made once more on the same list.
ClusterRunAgain ==
    /\ clDone
    /\ LET optimized == simulateRLOptimization(PendingOf(clInput))
       IN \E draw \in SavingsDraws(optimized) :
              clOutput' = WithEstimatedSavings(optimized, draw)
    /\ clRepeated' = TRUE
    /\ UNCHANGED <<clInput, clDone>>
    /\ UNCHANGED <<demoVars, aiVars, pollVars>>

-----------------------------------------------------------------------------
(* The polling effect of LastMileDemo, call by call.  Every fetchRoutes    *)
(* call is numbered in the order the calls are made; the calls in flight   *)
(* end in any order, since nothing in the effect orders or cancels them.   *)

pollFrame == UNCHANGED <<rideRequests, optimizedRoutes, totalRequests, selectedOrigin,
                         selectedDestination, isOptimizing, optTimers, pollsInFlight>>

\* The 4000 ms interval calls fetchRoutes; the interval is cleared at
\* unmount.
IntervalFetch ==
    /\ isMounted
    /\ pollStarted < MaxPolls
    /\ pollStarted' = pollStarted + 1
    /\ pollOpen' = pollOpen \cup {pollStarted + 1}
    /\ UNCHANGED <<isMounted, pollShown, apiRoutes, apiError>>
    /\ pollFrame
    /\ UNCHANGED <<aiVars, clVars>>

\* A call in flight receives a 2xx response with a JSON body.
FetchResolves ==
    /\ \E k \in pollOpen, data \in FeedBodies :
           /\ pollOpen' = pollOpen \ {k}
           /\ IF isMounted
              THEN /\ apiRoutes' = ArrayOrEmpty(data)
                   /\ apiError' = FALSE
                   /\ pollShown' = k
              ELSE UNCHANGED <<apiRoutes, apiError, pollShown>>
    /\ UNCHANGED <<isMounted, pollStarted>>
    /\ pollFrame
    /\ UNCHANGED <<aiVars, clVars>>

\* A call in flight fails: network error, non-2xx status or bad JSON.
FetchRejects ==
    /\ \E k \in pollOpen :
           /\ pollOpen' = pollOpen \ {k}
           /\ IF isMounted
              THEN /\ apiRoutes' = <<>>
                   /\ apiError' = TRUE
                   /\ pollShown' = k
              ELSE UNCHANGED <<apiRoutes, apiError, pollShown>>
    /\ UNCHANGED <<isMounted, pollStarted>>
    /\ pollFrame
    /\ UNCHANGED <<aiVars, clVars>>

\* The cleanup of the polling effect.
Unmount ==
    /\ isMounted
    /\ isMounted' = FALSE
    /\ UNCHANGED <<pollStarted, pollOpen, pollShown, apiRoutes, apiError>>
    /\ pollFrame
    /\ UNCHANGED <<aiVars, clVars>>

-----------------------------------------------------------------------------
(* Initial states and specifications.                                      *)

DemoInit ==
    /\ rideRequests = <<>>
    /\ optimizedRoutes = <<>>
    /\ totalRequests = 0
    /\ selectedOrigin = Null
    /\ selectedDestination = Null
    /\ isOptimizing = FALSE
    /\ optTimers = <<>>
    /\ apiRoutes = <<>>
    /\ apiError = FALSE
    /\ pollsInFlight = 1

AIInit ==
    /\ pickup = Null
    /\ destination = Null
    /\ passengers = 1
    /\ requests = <<>>
    /\ routes = <<>>
    /\ statsTotal = 0
    /\ isLoading = FALSE
    /\ pendingRoutes = <<>>

ClusterIdle ==
    /\ clInput = <<>>
    /\ clOutput = <<>>
    /\ clDone = FALSE
    /\ clRepeated = FALSE

\* The polling effect has run: isMounted is set and the first call is made.
PollMounted ==
    /\ isMounted = TRUE
    /\ pollStarted = 1
    /\ pollOpen = {1}
    /\ pollShown = 0

Init == DemoInit /\ AIInit /\ ClusterIdle /\ PollMounted

NextDemo ==
    \/ GeneratorTick
    \/ SelectOrigin
    \/ SelectDestination
    \/ HandleRequestRide
    \/ SubmissionsBeforeRender
    \/ HandleRequestRideRejected
    \/ OptimizationTimerFires
    \/ PollStarts
    \/ PollSucceeds
    \/ PollFails

SpecDemo == Init /\ [][NextDemo]_vars

\* LastMileDemo left to its two timers, with no user at the page: the
\* 3000 ms interval of the generator and the 1500 ms timeout of the
\* optimization effect both fire when due.
NextDemoLive ==
    \/ GeneratorTickToLimit
    \/ OptimizationTimerFires

SpecDemoLive ==
    /\ Init
    /\ [][NextDemoLive]_vars
    /\ WF_vars(GeneratorTickToLimit)
    /\ WF_vars(OptimizationTimerFires)

NextAI ==
    \/ MarkerClick
    \/ PassengersMinus
    \/ PassengersPlus
    \/ ClearSelection
    \/ SubmitRequest
    \/ SubmitRequestRejected
    \/ RoutesArrive
    \/ clearAll

SpecAI == Init /\ [][NextAI]_vars

NextPoll ==
    \/ IntervalFetch
    \/ FetchResolves
    \/ FetchRejects
    \/ Unmount

SpecPoll == Init /\ [][NextPoll]_vars

\* The steps of LastMileAI that the page itself takes: its event handlers.
\* RoutesArrive is not among them: it happens when the routing provider has
\* answered every call of the run, and fetchRoute sets no timer and passes
\* no abort signal that would end a call the provider leaves unanswered.
HandlersAI ==
    \/ MarkerClick
    \/ PassengersMinus
    \/ PassengersPlus
    \/ ClearSelection
    \/ SubmitRequest
    \/ SubmitRequestRejected
    \/ clearAll

\* LastMileAI with a page that keeps handling events and a provider that
\* may stay silent.
SpecAILive == Init /\ [][NextAI]_vars /\ WF_vars(HandlersAI)

NextCluster ==
    \/ ClusterInputGrows
    \/ ClusterRun

SpecCluster == Init /\ [][NextCluster]_vars

\* simulateRLOptimization called on a list, and called again on it.
NextClusterTwice ==
    \/ ClusterInputGrows
    \/ ClusterRun
    \/ ClusterRunAgain

SpecClusterTwice == Init /\ [][NextClusterTwice]_vars

\* simulateRLOptimization called on lists of requests from two cities.
NextClusterStops ==
    \/ ClusterInputGrowsStops
    \/ ClusterRun

SpecClusterStops == Init /\ [][NextClusterStops]_vars

\* The page renders one of the two components: a component acts only while
\* the other one is in the state it was constructed in.
Next ==
    \/ NextDemo /\ AIInit
    \/ NextAI /\ DemoInit

Spec == Init /\ [][Next]_vars

-----------------------------------------------------------------------------
(* Properties of the clustering runs of LastMileDemo.                      *)

\* The <<cluster, position>> slots of `clusters` that hold request object n.
SlotsOf(clusters, n) ==
    { s \in UNION { {<<c, k>> : k \in DOMAIN clusters[c].requests} :
                    c \in DOMAIN clusters } :
        clusters[s[1]].requests[s[2]].n = n }

\* The request objects placed in `clusters`.
ClusteredIn(clusters) ==
    UNION { {clusters[c].requests[k].n : k \in DOMAIN clusters[c].requests} :
            c \in DOMAIN clusters }

\* A step in which the oldest pending optimization timer fires.
RunCompletes == optTimers # <<>> /\ optTimers' = Tail(optTimers)

\* C1: when a clustering run completes, every request that was pending when
\* the run was triggered is a member of exactly one of the run's clusters,
\* and the clusters hold no other request.
C1_PendingPartitioned ==
    [][RunCompletes =>
         LET pend == PendingOf(Head(optTimers))
         IN /\ \A i \in DOMAIN pend :
                   Cardinality(SlotsOf(optimizedRoutes', pend[i].n)) = 1
            /\ ClusteredIn(optimizedRoutes') \subseteq {pend[i].n : i \in DOMAIN pend}]_vars

\* C2: no published cluster carries more passengers than the largest vehicle
\* seats, in either component.
C2_ClusterWithinLargestVehicle ==
    /\ \A i \in DOMAIN optimizedRoutes :
           SumPassengers(optimizedRoutes[i].requests) <= LargeCapacity
    /\ \A i \in DOMAIN routes :
           SumPassengers(routes[i].requests) <= LargeCapacity

\* C4: at most one clustering run is in progress at any time, and a run
\* clusters only requests that no earlier run has assigned.
C4_SingleRunInProgress ==
    [][/\ Len(optTimers') <= 1
       /\ RunCompletes =>
              \A n \in ClusteredIn(optimizedRoutes') :
                  rideRequests[n].status = "pending"]_vars

\* C5: when a run completes, the requests it clustered are assigned, and a
\* request submitted after the run was triggered is still pending.
C5_RunAssignsOnlyItsRequests ==
    [][RunCompletes =>
         /\ \A n \in ClusteredIn(optimizedRoutes') :
                rideRequests'[n].status = "assigned"
         /\ \A n \in DOMAIN rideRequests :
                n > Len(Head(optTimers)) => rideRequests'[n].status = "pending"]_vars

-----------------------------------------------------------------------------
(* Properties of simulateRLOptimization.                                    *)

\* The grouping key the clusters are judged against: the declared region of
\* the destination, or its category when it declares no region.
RegionOrCategory(dest) ==
    LET loc == CYPRUS_LOCATIONS[dest]
    IN IF loc.region = NoRegion THEN loc.type ELSE loc.region

\* How far apart two catalogue places are, in 1/10000 of a degree of
\* latitude plus longitude.
Apart(a, b) ==
    LET dLat == CYPRUS_LOCATIONS[a].lat - CYPRUS_LOCATIONS[b].lat
        dLng == CYPRUS_LOCATIONS[a].lng - CYPRUS_LOCATIONS[b].lng
    IN (IF dLat < 0 THEN -dLat ELSE dLat) + (IF dLng < 0 THEN -dLng ELSE dLng)

\* The cluster of clOutput that request object n was placed in, 0 if none.
ClusterOf(n) ==
    IF \E c \in DOMAIN clOutput : SlotsOf(<<clOutput[c]>>, n) # {}
    THEN CHOOSE c \in DOMAIN clOutput : SlotsOf(<<clOutput[c]>>, n) # {}
    ELSE 0

-----------------------------------------------------------------------------
(* Properties of the request stores and their counters.                    *)

\* No stored request has its origin as destination or a passenger count
\* outside MinPassengers..MaxPassengers.
StoredRequestsValid ==
    /\ \A i \in DOMAIN rideRequests :
           /\ rideRequests[i].origin # rideRequests[i].destination
           /\ rideRequests[i].passengers \in MinPassengers..MaxPassengers
    /\ \A i \in DOMAIN requests :
           /\ requests[i].pickup # requests[i].destination
           /\ requests[i].passengers \in MinPassengers..MaxPassengers

\* C6: a submission without a complete selection adds nothing to the store
\* or the counter, an accepted one appends exactly one request made of the
\* selection (a step of LastMileDemo in which several submissions are made
\* appends one request per counted submission), and after every step no
\* stored request has its origin as destination or a passenger count
\* outside 1..20.
C6_OnlyValidRequestsStored ==
    [][/\ StoredRequestsValid'
       /\ (pickup = Null \/ destination = Null) =>
              Len(requests') <= Len(requests) /\ statsTotal' <= statsTotal
       /\ Len(requests') > Len(requests) =>
              /\ requests' = Append(requests, requests'[Len(requests')])
              /\ requests'[Len(requests')].pickup = pickup
              /\ requests'[Len(requests')].destination = destination
              /\ requests'[Len(requests')].passengers = passengers
       /\ Len(rideRequests') > Len(rideRequests) =>
              /\ SubSeq(rideRequests', 1, Len(rideRequests)) = rideRequests
              /\ Len(rideRequests') - Len(rideRequests) = totalRequests' - totalRequests]_vars

\* A request of MaxPassengers passengers, made with the "+" button, is stored.
C6_Witness ==
    \E i \in DOMAIN requests : requests[i].passengers = MaxPassengers

\* C7: a request enters the store pending and with an id that no request
\* already stored has.
C7_CreatedPendingWithFreshId ==
    [][Len(rideRequests') > Len(rideRequests) =>
         LET created == rideRequests'[Len(rideRequests')]
         IN /\ created.status = "pending"
            /\ \A i \in DOMAIN rideRequests : rideRequests[i].id # created.id]_vars

\* Each request added to a store adds one to the store's counter.
SubmissionsCounted ==
    /\ Len(rideRequests') > Len(rideRequests) =>
           totalRequests' = totalRequests + (Len(rideRequests') - Len(rideRequests))
    /\ Len(requests') > Len(requests) => statsTotal' = statsTotal + 1

DemoRequestsKept ==
    \A i \in DOMAIN rideRequests :
        /\ i \in DOMAIN rideRequests'
        /\ rideRequests'[i].n = rideRequests[i].n
        /\ rideRequests'[i].id = rideRequests[i].id
        /\ \/ rideRequests'[i].status = rideRequests[i].status
           \/ rideRequests[i].status = "pending" /\ rideRequests'[i].status = "assigned"

\* Every request of LastMileAI's store stays where it is.
AiRequestsKept ==
    /\ Len(requests') >= Len(requests)
    /\ \A i \in DOMAIN requests : requests'[i] = requests[i]

C10_OneRoutePerVehicle ==
    \A i, j \in DOMAIN activeRoutesForUI :
        i # j => activeRoutesForUI[i].vehicleId # activeRoutesForUI[j].vehicleId

-----------------------------------------------------------------------------
(* Properties of the route view of LastMileDemo.                           *)

\* The keys of the records the last applied poll returned.
FeedKeys == {apiRoutes[i].vehicle_id : i \in DOMAIN apiRoutes}

\* The keys of the clusters the last completed run published.
LocalKeys == {optimizedRoutes[i].vehicleId : i \in DOMAIN optimizedRoutes}

\* C11: a key the feed has returned a route for is shown, and every route
\* shown for it is the view of a feed record of that key, whole: the local
\* route of the key is no longer shown and none of its fields is.
C11_AuthoritativeReplacesLocal ==
    \A k \in FeedKeys :
        /\ \E i \in DOMAIN activeRoutesForUI : activeRoutesForUI[i].vehicleId = k
        /\ \A i \in DOMAIN activeRoutesForUI :
               activeRoutesForUI[i].vehicleId = k =>
                   \E j \in DOMAIN apiRoutes :
                       /\ apiRoutes[j].vehicle_id = k
                       /\ activeRoutesForUI[i] = ApiRouteView(apiRoutes[j])

\* The feed has returned a route for a key that a local cluster has too.
C11_Witness == FeedKeys \cap LocalKeys # {}

\* C12: an authoritative route whose key is missing from the next applied
\* poll, the first poll without it, is still shown after that poll.
C12_KeptThroughOneMissedPoll ==
    [][\A i \in DOMAIN apiRoutes :
           apiRoutes[i].vehicle_id \notin {apiRoutes'[j].vehicle_id : j \in DOMAIN apiRoutes'}
               => ApiRouteView(apiRoutes[i]) \in Range(activeRoutesForUI')]_vars

\* A step in which a fetchRoutes call ends in its catch block.
PollFailed == pollsInFlight' = pollsInFlight - 1 /\ apiError'

\* C13: a failed poll leaves an empty feed and the error flag and changes
\* nothing else, so the view shows the local routes; and after a failure
\* the next poll can always be started or answered.
C13_FailedPollIsEmptyFeed ==
    [][/\ PollFailed =>
              /\ apiRoutes' = <<>>
              /\ activeRoutesForUI' = optimizedRoutes
              /\ UNCHANGED <<rideRequests, optimizedRoutes, totalRequests,
                             selectedOrigin, selectedDestination, isOptimizing,
                             optTimers>>
       /\ apiError => ENABLED PollStarts \/ ENABLED PollSucceeds]_vars

\* After a failed poll the view shows local routes and the next poll is
\* under way.
C13_Witness ==
    apiError /\ pollsInFlight > 0 /\ activeRoutesForUI # <<>> /\ apiRoutes = <<>>

\* A step in which submitRequest's route building ends.
RouteBuildingEnds == isLoading /\ pendingRoutes # <<>> /\ pendingRoutes' = <<>>

\* C14: route building never fails the run.  Whatever the routing provider
\* does for the clusters of a run (throws, answers with a code other than
\* 'Ok', answers with a malformed payload), no rejection leaves fetchRoute:
\* the run ends published, with one route per cluster, in cluster order,
\* each carrying its cluster's requests, and the form is released.
C14_RouteForEveryCluster ==
    [][RouteBuildingEnds =>
           /\ ~isLoading'
           /\ Len(routes') = Len(pendingRoutes)
           /\ \A i \in DOMAIN pendingRoutes :
                  /\ routes'[i].requests = pendingRoutes[i]
                  /\ routes'[i].stops = StopsOf(pendingRoutes[i])]_vars

\* A published run of two clusters in which the provider gave road data for
\* one cluster and none for the other.
C14_Witness ==
    /\ ~isLoading
    /\ Len(routes) = 2
    /\ routes[1].geometry = NoGeometry
    /\ routes[2].geometry # NoGeometry

\* The [lng, lat] points of a route's stops, in stop order.
StopCoordinates(stops) ==
    [i \in DOMAIN stops |-> <<LOCATIONS[stops[i]].lng, LOCATIONS[stops[i]].lat>>]

\* Some two stops of a route lie at different points.
NotCoincident(stops) ==
    \E i, j \in DOMAIN stops : LOCATIONS[stops[i]] # LOCATIONS[stops[j]]

\* C15: a route whose provider call failed still has geometry: the points of
\* its stops in stop order; its distance is the sum of the great-circle
\* lengths of its consecutive stop segments, positive when the stops are
\* not all at one point.
C15_FallbackGeometryIsStops ==
    \A i \in DOMAIN routes :
        routes[i].geometry # RoadGeometry(routes[i].stops) =>
            /\ routes[i].geometry # NoGeometry
            /\ routes[i].geometry = StopCoordinates(routes[i].stops)
            /\ routes[i].distance = ToFixed1(StraightLength(routes[i].stops), 1000)
            /\ NotCoincident(routes[i].stops) => routes[i].distance > 0

\* The record sets one poll response can bring.
PollResponses == {data.items : data \in FeedBodies}

\* C16: the route sets change only by whole-set replacement.  A step that
\* changes the local routes installs the complete result of the clustering
\* run whose timer fired; a step that changes the held feed installs the
\* complete record set of one poll response (the empty set after a failed
\* poll); no step applies part of either.
C16_WholeSetReplacement ==
    [][/\ optimizedRoutes' # optimizedRoutes =>
              /\ optTimers # <<>>
              /\ optimizedRoutes' = simulateRLOptimization(PendingOf(Head(optTimers)))
       /\ apiRoutes' # apiRoutes => apiRoutes' \in PollResponses \cup {<<>>}
       /\ activeRoutesForUI' \in {optimizedRoutes', apiRouteViews'}]_vars

\* A two-cluster run and a two-record response have both been applied.
C16_Witness == Len(optimizedRoutes) = 2 /\ Len(apiRoutes) = 2

\* Which requests are in which cluster, in cluster order.
Membership(clusters) == [i \in DOMAIN clusters |-> clusters[i].requests]

C18_Co2SavedNeverNegative ==
    /\ \A i \in DOMAIN activeRoutesForUI : activeRoutesForUI[i].co2Saved >= 0
    /\ \A i \in DOMAIN routes : routes[i].co2 >= 0

\* C19: admission to the open cluster is limited by the passenger total.
\* The seed of a later cluster was unused during the scan of every earlier
\* cluster; when its key is that of the earlier cluster's seed it was
\* skipped there only because its passengers would have taken the total
\* past the largest vehicle.  So five same-key requests of one passenger
\* each are one cluster.
C19_AdmissionByPassengerTotal ==
    clDone =>
        \A c, d \in DOMAIN clOutput :
            ( /\ c < d
              /\ RegionOrCategory(clOutput[c].requests[1].destination)
                     = RegionOrCategory(clOutput[d].requests[1].destination) )
            => SumPassengers(clOutput[c].requests)
                   + clOutput[d].requests[1].passengers > LargeCapacity

\* A step that schedules the timer of a run.
RunStarted ==
    \/ Len(optTimers') > Len(optTimers)
    \/ Len(optTimers') = Len(optTimers) /\ optTimers' # optTimers

C21_LocalShownWhileFeedLacksKey ==
    \A i \in DOMAIN optimizedRoutes :
        optimizedRoutes[i].vehicleId \notin FeedKeys =>
            optimizedRoutes[i] \in Range(activeRoutesForUI)

\* The state of route key k in the view that shows feed records `feed` and
\* local routes `local`.
RouteState(feed, local, k) ==
    IF \E i \in DOMAIN feed : feed[i].vehicle_id = k THEN "authoritative"
    ELSE IF feed = <<>> /\ \E i \in DOMAIN local : local[i].vehicleId = k
         THEN "local"
         ELSE "absent"

RouteKeys == {VehicleId(i) : i \in 1..MaxRequests}

\* C22: per route key the only transitions are absent -> local, local ->
\* authoritative, authoritative -> authoritative and any state -> absent.
\* In particular a key that is authoritative is not published as a local
\* route by the next step.
C22_RouteKeyTransitions ==
    [][\A k \in RouteKeys :
           LET from == RouteState(apiRoutes, optimizedRoutes, k)
               to == RouteState(apiRoutes', optimizedRoutes', k)
           IN \/ to = from
              \/ to = "absent"
              \/ from = "absent" /\ to = "local"
              \/ from = "local" /\ to = "authoritative"]_vars

\* C23: a provider call is bounded by a timeout.  Also when the provider
\* never answers, a run that is loading eventually ends: its routes are
\* published and the loading state is cleared.
C23_LoadingEventuallyCleared ==
    isLoading ~> (~isLoading /\ pendingRoutes = <<>>)

\* C24: the stop list of a route is the distinct origins of its requests in
\* first-seen order, then their distinct destinations in first-seen order;
\* every origin and every destination of a clustered request is a stop.
C24_StopsAreOriginsThenDestinations ==
    clDone =>
        \A c \in DOMAIN clOutput :
            LET reqs == clOutput[c].requests
                origins == [i \in DOMAIN reqs |-> reqs[i].origin]
                dests == [i \in DOMAIN reqs |-> reqs[i].destination]
            IN /\ clOutput[c].routeStops = FirstSeen(origins) \o FirstSeen(dests)
               /\ \A i \in DOMAIN reqs :
                      /\ reqs[i].origin \in Range(clOutput[c].routeStops)
                      /\ reqs[i].destination \in Range(clOutput[c].routeStops)

\* The capacity of the smallest of the classes 4, 8, 20 that holds `pass`
\* passengers, the largest when none does.
SmallestFit(pass) ==
    IF pass <= SmallCapacity THEN SmallCapacity
    ELSE IF pass <= MediumCapacity THEN MediumCapacity
    ELSE LargeCapacity

\* C25: the vehicle class of a route is the smallest class that holds its
\* passengers (capacities 4, 8, 20), the largest when none does, in every
\* place that derives a capacity from a passenger count: the vehicle of a
\* route built by submitRequest and the capacity of a transport option.
C25_SmallestClassThatFits ==
    /\ \A i \in DOMAIN routes :
           routes[i].vehicle.capacity = SmallestFit(routes[i].passengers)
    /\ \A focus \in ALL_DESTINATIONS : \A i \in DOMAIN transportOptions(focus) :
           transportOptions(focus)[i].capacity
               = SmallestFit(transportOptions(focus)[i].occupancy)

\* A step of the polling effect: a call starts or ends.
PollStep == pollsInFlight' # pollsInFlight

\* A step that adds a request to the store.
SubmissionStep == Len(rideRequests') > Len(rideRequests)

\* C26: only a clustering run changes the status of a request.  A step that
\* changes the status of a stored request is the completion of a run; a
\* submission, of the user or of the generator, leaves every stored request
\* as it is; a step of the polling effect writes neither the store nor the
\* local routes.
C26_OnlyRunChangesStatus ==
    [][/\ (\E i \in DOMAIN rideRequests :
               i \in DOMAIN rideRequests'
                   /\ rideRequests'[i].status # rideRequests[i].status)
              => RunCompletes
       /\ SubmissionStep =>
              \A i \in DOMAIN rideRequests : rideRequests'[i] = rideRequests[i]
       /\ PollStep => UNCHANGED <<rideRequests, optimizedRoutes>>]_vars

\* A response has been applied while the store holds assigned and pending
\* requests and local routes.
C26_Witness ==
    /\ apiRoutes # <<>>
    /\ optimizedRoutes # <<>>
    /\ \E i, j \in DOMAIN rideRequests :
           rideRequests[i].status = "assigned" /\ rideRequests[j].status = "pending"

\* C27: the outcomes of the polls are applied in the order the polls were
\* started: the outcome of an earlier call that ends after a later call's
\* never replaces what the later call brought; and an outcome that comes
\* after the cleanup writes nothing.
C27_ResponsesInStartOrder ==
    [][/\ pollShown' >= pollShown
       /\ ~isMounted => UNCHANGED <<apiRoutes, apiError>>]_vars

\* C28: with the timers firing and no user submission, every request that
\* is in the store with status pending is eventually assigned.
\* No request stays pending for ever (a stored request stays stored, and the
\* only other status is assigned).
C28_PendingEventuallyAssigned ==
    \A n \in 1..GenLimit :
        []<>~(Len(rideRequests) >= n /\ rideRequests[n].status = "pending")

\* C29: in every reachable state the counter of total requests equals the
\* number of requests in the store, in LastMileDemo and in LastMileAI,
\* whatever the order of user submissions, generated submissions, runs and
\* clear operations, two submissions made on one render included.
C29_CounterEqualsStoreSize ==
    /\ totalRequests = Len(rideRequests)
    /\ statsTotal = Len(requests)

\* Two submissions were made on one render: four requests are pending and
\* counted, and the only run scheduled is on the store of all four (made one
\* at a time, the third would have scheduled a run on a store of three).
C29_Witness ==
    /\ totalRequests = 4
    /\ Len(PendingOf(rideRequests)) = 4
    /\ optTimers = <<rideRequests>>
====
